---- MODULE Spec2Model ----
(***************************************************************************)
(* SiteFast edge optimizer (worker/src/index.js): the fetch handler, the   *)
(* advisor call generateOptimizations and the rewrite rules of             *)
(* applyOptimizations, as one state machine per inbound request.           *)
(*                                                                         *)
(* Strings are sequences of lexical tokens ("" is <<>>): a URL such as     *)
(* https://cdn.example/gtag/js is <<"http","s","://","cdn.example","/",    *)
(* "gtag","/js">>.  A string that begins with the characters http always   *)
(* has "http" as its first token, and the marker words the code searches   *)
(* for (text/html, analytics, gtag, facebook, font, icon) are tokens of    *)
(* their own, so startsWith and includes are computed on tokens.           *)
(***************************************************************************)
EXTENDS Integers, Sequences, FiniteSets, TLC

VARIABLES
  request,              \* inbound request: origin query parameter, X-Origin-Domain header, path
  env,                  \* worker configuration: ORIGIN_DOMAIN, GEMINI_API_KEY
  site,                 \* the origin server: outcome of each fetch, content-type, document
  gemini,               \* the advisor service: what it answers to this request
  pc,                   \* position of the handler
  originDomain,         \* resolved origin
  originUrl,            \* upstream URL
  originalResponse,     \* response of the first origin fetch
  pageContext,          \* context record filled by the extraction pass
  geminiOptimizations,  \* the suggestion (null or a parsed object)
  log,                  \* outbound requests and passes started so far, in order
  raised,               \* the stage whose exception reached the catch block
  result,               \* what the handler returned
  stream,               \* state of the lazily consumed rewritten body
  pos,                  \* next element of the document the rewrite pass will see
  imageCount,           \* the img rule's counter
  out,                  \* elements emitted by the rewrite pass, in order
  peers,                \* rewrite passes of the requests handled at the same time
  leads,                \* the audit script's input file leads.csv
  pagespeed,            \* the scoring API: the domains whose audit fails
  progressFile,         \* the audit script's progress.json
  outputFile,           \* the audit script's output.csv
  main,                 \* the running audit process: position and locals of main()
  kills                 \* how often the audit process was killed and started again

vars == <<request, env, site, gemini, pc, originDomain, originUrl, originalResponse,
          pageContext, geminiOptimizations, log, raised, result, stream, pos,
          imageCount, out, peers, leads, pagespeed, progressFile, outputFile, main, kills>>

auditVars == <<leads, pagespeed, progressFile, outputFile, main, kills>>

handlerVars == <<request, env, site, gemini, pc, originDomain, originUrl, originalResponse,
                 pageContext, geminiOptimizations, log, raised, result, stream, pos,
                 imageCount, out, peers>>

inputs == <<request, env, site, gemini>>

----------------------------------------------------------------------------
(* Strings *)

StartsWith(s, tok) == Len(s) > 0 /\ s[1] = tok

Includes(s, tok) == \E i \in 1..Len(s) : s[i] = tok

\* a || b on strings: the first operand unless it is empty
OrElse(a, b) == IF a # <<>> THEN a ELSE b

\* Array.prototype.slice(from, to) with 0-based from, exclusive to
Slice(s, from, to) ==
  IF from >= Len(s) THEN <<>>
  ELSE SubSeq(s, from + 1, IF to < Len(s) THEN to ELSE Len(s))

----------------------------------------------------------------------------
(* Elements seen by HTMLRewriter: a tag, the attributes present (a function *)
(* from attribute names to values) and the text chunks inside the element.  *)

NoAttrs == <<>>

El(tag, attrs) == [tag |-> tag, attrs |-> attrs, text |-> <<>>]

TextEl(tag, chunks) == [tag |-> tag, attrs |-> NoAttrs, text |-> chunks]

hasAttribute(el, name) == name \in DOMAIN el.attrs

\* el.getAttribute(name) is truthy: present and not the empty string
Truthy(el, name) == hasAttribute(el, name) /\ el.attrs[name] # <<>>

\* el.getAttribute(name) || ''
getAttributeOr(el, name) == IF Truthy(el, name) THEN el.attrs[name] ELSE <<>>

setAttribute(el, name, value) == [el EXCEPT !.attrs = (name :> value) @@ @]

----------------------------------------------------------------------------
(* Origin resolution and the upstream URL (fetch, first lines) *)

DefaultOrigin == <<"http", "s", "://", "example.com">>

\* url.searchParams.get('origin'): the value of the first parameter of that name
RECURSIVE searchParamsGet(_, _)
searchParamsGet(params, name) ==
  IF params = <<>> THEN <<>>
  ELSE IF Head(params).name = name THEN Head(params).value
  ELSE searchParamsGet(Tail(params), name)

\* url.searchParams.delete('origin'): every parameter of that name is removed
RECURSIVE searchParamsDelete(_, _)
searchParamsDelete(params, name) ==
  IF params = <<>> THEN <<>>
  ELSE IF Head(params).name = name THEN searchParamsDelete(Tail(params), name)
  ELSE <<Head(params)>> \o searchParamsDelete(Tail(params), name)

\* url.search: "" for no parameter, else ?n=v&n=v
RECURSIVE JoinParams(_)
JoinParams(params) ==
  IF params = <<>> THEN <<>>
  ELSE <<Head(params).name, "=">> \o Head(params).value
       \o (IF Tail(params) = <<>> THEN <<>> ELSE <<"&">> \o JoinParams(Tail(params)))

UrlSearch(params) == IF params = <<>> THEN <<>> ELSE <<"?">> \o JoinParams(params)

\* ResolveOrigin that prefers the header to the query parameter
ResolveOriginHeaderFirst(req, e) ==
  LET chosen == OrElse(req.originHeader,
                  OrElse(searchParamsGet(req.params, "origin"),
                    OrElse(e.ORIGIN_DOMAIN, DefaultOrigin)))
  IN  IF StartsWith(chosen, "http") THEN chosen ELSE <<"http", "s", "://">> \o chosen

ResolveOrigin(req, e) ==
  LET chosen == OrElse(searchParamsGet(req.params, "origin"),
                  OrElse(req.originHeader, OrElse(e.ORIGIN_DOMAIN, DefaultOrigin)))
  IN  IF StartsWith(chosen, "http") THEN chosen ELSE <<"http", "s", "://">> \o chosen

PathAndQuery(req) == req.pathname \o UrlSearch(searchParamsDelete(req.params, "origin"))

UpstreamUrl(req, e) == ResolveOrigin(req, e) \o PathAndQuery(req)

----------------------------------------------------------------------------
(* Context extraction: the handlers of contextRewriter, folded over the     *)
(* document in document order.                                              *)

EmptyContext ==
  [title |-> <<>>, h1 |-> <<>>, description |-> <<>>, images |-> <<>>,
   externalDomains |-> <<>>]

\* SetAdd on an array in place of the Set: push
SetAddPush(s, x) == Append(s, x)

\* Set.prototype.add on a Set iterated in insertion order
SetAdd(s, x) == IF \E i \in 1..Len(s) : s[i] = x THEN s ELSE Append(s, x)

\* position of "://" in an absolute http(s) URL
SchemeEnd(u) == IF Len(u) >= 2 /\ u[2] = "s" THEN 3 ELSE 2

\* new URL(u) does not throw: scheme, "://" and a host
UrlParses(u) ==
  /\ StartsWith(u, "http")
  /\ Len(u) > SchemeEnd(u)
  /\ u[SchemeEnd(u)] = "://"

\* the URL parser lower-cases the host
HostLower(tok) == IF tok = "CDN1.example" THEN "cdn1.example" ELSE tok

\* new URL(u).origin: scheme and host
UrlOrigin(u) == SubSeq(u, 1, SchemeEnd(u)) \o <<HostLower(u[SchemeEnd(u) + 1])>>

IsDescriptionMeta(el) ==
  el.tag = "meta" /\ hasAttribute(el, "name") /\ el.attrs["name"] = <<"description">>

ContextStep(ctx, el) ==
  LET c1 == IF el.tag = "title" THEN [ctx EXCEPT !.title = @ \o el.text] ELSE ctx
      c2 == IF el.tag = "h1" THEN [c1 EXCEPT !.h1 = @ \o el.text] ELSE c1
      c3 == IF IsDescriptionMeta(el)
            THEN [c2 EXCEPT !.description = getAttributeOr(el, "content")] ELSE c2
      c4 == IF el.tag = "img" /\ hasAttribute(el, "src") /\ Truthy(el, "src")
            THEN [c3 EXCEPT !.images = Append(@, el.attrs["src"])] ELSE c3
      href == OrElse(getAttributeOr(el, "href"), getAttributeOr(el, "src"))
  IN  IF /\ \/ el.tag = "link" /\ hasAttribute(el, "href")
            \/ el.tag = "script" /\ hasAttribute(el, "src")
         /\ href # <<>>
         /\ StartsWith(href, "http")
         /\ UrlParses(href)
      THEN [c4 EXCEPT !.externalDomains = SetAdd(@, UrlOrigin(href))]
      ELSE c4

RECURSIVE ExtractFrom(_, _)
ExtractFrom(doc, ctx) ==
  IF doc = <<>> THEN ctx ELSE ExtractFrom(Tail(doc), ContextStep(ctx, Head(doc)))

ExtractContext(doc) == ExtractFrom(doc, EmptyContext)

----------------------------------------------------------------------------
(* JSON values of the advisor's suggestion *)

JUndefined == [t |-> "undefined", v |-> <<>>]
JNull == [t |-> "null", v |-> <<>>]
JStr(s) == [t |-> "str", v |-> s]
JNum(n) == [t |-> "num", v |-> <<n>>]
JArr(items) == [t |-> "arr", v |-> items]
JObj == [t |-> "obj", v |-> <<>>]

\* JavaScript truthiness of a JSON value
JTruthy(x) ==
  CASE x.t = "undefined" -> FALSE
    [] x.t = "null" -> FALSE
    [] x.t = "str" -> x.v # <<>>
    [] x.t = "num" -> x.v # <<0>>
    [] OTHER -> TRUE

\* for (const item of x) does not throw: arrays and strings are iterable
JIterable(x) == x.t \in {"arr", "str"}

\* the items for..of yields: the elements of an array, the characters of a string
JItems(x) == IF x.t = "arr" THEN x.v ELSE [i \in 1..Len(x.v) |-> JStr(<<x.v[i]>>)]

\* `${x}` in a template literal
JText(x) ==
  CASE x.t = "str" -> x.v
    [] x.t = "num" -> <<"#">>
    [] x.t = "arr" -> <<"[array]">>
    [] OTHER -> <<x.t>>

\* geminiOptimizations: null, or the object JSON.parse returned
NoSuggestion == [isNull |-> TRUE, fields |-> <<>>]

Suggestion(fields) == [isNull |-> FALSE, fields |-> fields]

\* geminiOptimizations?.name
OptField(opts, name) ==
  IF opts.isNull \/ name \notin DOMAIN opts.fields THEN JUndefined ELSE opts.fields[name]

----------------------------------------------------------------------------
(* The advisor's reply text is a sequence of tokens: the braces, a member   *)
(* "field": value (with its comma), a key "field": that an object value     *)
(* follows, and prose (explanatory text, code fences).                      *)

LBrace == [t |-> "lbrace"]
RBrace == [t |-> "rbrace"]
Prose == [t |-> "prose"]
Member(field, value) == [t |-> "member", field |-> field, value |-> value]
Key(field) == [t |-> "key", field |-> field]

\* text.match(/\{[\s\S]*\}/): from the first { to the last }, or no match (<<>>)
JsonMatch(text) ==
  LET opens == {i \in 1..Len(text) : text[i].t = "lbrace"}
      closes == {i \in 1..Len(text) : text[i].t = "rbrace"}
      first == CHOOSE i \in opens : \A j \in opens : i <= j
      last == CHOOSE i \in closes : \A j \in closes : j <= i
  IN  IF opens = {} \/ closes = {} THEN <<>>
      ELSE IF first < last THEN SubSeq(text, first, last) ELSE <<>>

\* the members of an object from position i on, up to its closing brace:
\* [ok, next, fields]; a repeated field keeps its last value
RECURSIVE ParseMembers(_, _, _)
ParseMembers(s, i, acc) ==
  IF i > Len(s) THEN [ok |-> FALSE, next |-> i, fields |-> acc]
  ELSE CASE s[i].t = "rbrace" -> [ok |-> TRUE, next |-> i + 1, fields |-> acc]
         [] s[i].t = "member" ->
              ParseMembers(s, i + 1, (s[i].field :> s[i].value) @@ acc)
         [] s[i].t = "key" ->
              IF i + 1 <= Len(s) /\ s[i + 1].t = "lbrace"
              THEN LET inner == ParseMembers(s, i + 2, <<>>)
                   IN  IF inner.ok
                       THEN ParseMembers(s, inner.next, (s[i].field :> JObj) @@ acc)
                       ELSE [ok |-> FALSE, next |-> inner.next, fields |-> acc]
              ELSE [ok |-> FALSE, next |-> i, fields |-> acc]
         [] OTHER -> [ok |-> FALSE, next |-> i, fields |-> acc]

\* JSON.parse(s): [ok |-> FALSE] stands for the SyntaxError it throws
JSONParse(s) ==
  IF s = <<>> \/ s[1].t # "lbrace" THEN [ok |-> FALSE, fields |-> <<>>]
  ELSE LET r == ParseMembers(s, 2, <<>>)
       IN  IF r.ok /\ r.next = Len(s) + 1 THEN [ok |-> TRUE, fields |-> r.fields]
           ELSE [ok |-> FALSE, fields |-> <<>>]

\* replies on which the try block of generateOptimizations throws: fetch rejects,
\* response.json() rejects, data is null (data.candidates throws), or the text
\* is not a string (text.match is not a function)
ThrowingReplies == {"reject", "badBody", "nullBody", "textNotString"}

\* data.candidates?.[0]?.content?.parts?.[0]?.text || ''
ReplyText(reply) == IF reply.kind = "text" THEN reply.text ELSE <<>>

\* generateOptimizations that keeps the members read before a syntax error
generateOptimizationsPartial(reply) ==
  IF reply.kind \in ThrowingReplies THEN NoSuggestion
  ELSE LET jsonMatch == JsonMatch(ReplyText(reply))
           read == ParseMembers(jsonMatch, 2, <<>>)
       IN  IF jsonMatch = <<>> THEN NoSuggestion
           ELSE IF read.fields # <<>> THEN Suggestion(read.fields)
           ELSE NoSuggestion

\* generateOptimizations, from the advisor's reply to the returned value
generateOptimizations(reply) ==
  IF reply.kind \in ThrowingReplies THEN NoSuggestion
  ELSE LET jsonMatch == JsonMatch(ReplyText(reply))
           parsed == JSONParse(jsonMatch)
       IN  IF jsonMatch = <<>> THEN NoSuggestion
           ELSE IF parsed.ok THEN Suggestion(parsed.fields)
           ELSE NoSuggestion

----------------------------------------------------------------------------
(* The rewrite rules of applyOptimizations.  An emitted element carries    *)
(* what el.prepend put after its start tag and what el.append put before   *)
(* its end tag, each in call order.                                        *)

Emitted(el) ==
  [tag |-> el.tag, attrs |-> el.attrs, text |-> el.text, prepend |-> <<>>, append |-> <<>>]

elPrepend(el, item) == [el EXCEPT !.prepend = <<item>> \o @]

elAppend(el, items) == [el EXCEPT !.append = @ \o items]

BaseTag(origin) == [kind |-> "base", href |-> origin \o <<"/">>]

\* geminiOptimizations?.preconnectDomains || Array.from(externalDomains).slice(0, 5)
PreconnectDomains(ctx, opts) ==
  IF JTruthy(OptField(opts, "preconnectDomains"))
  THEN OptField(opts, "preconnectDomains")
  ELSE JArr([i \in 1..Len(Slice(ctx.externalDomains, 0, 5)) |->
              JStr(Slice(ctx.externalDomains, 0, 5)[i])])

\* DnsPrefetchDomains starting one entry early
DnsPrefetchDomainsFromFifth(ctx) == Slice(ctx.externalDomains, 4, 10)

\* Array.from(externalDomains).slice(5, 10)
DnsPrefetchDomains(ctx) == Slice(ctx.externalDomains, 5, 10)

PreconnectLinks(list) ==
  [i \in 1..Len(JItems(list)) |-> [kind |-> "preconnect", href |-> JText(JItems(list)[i])]]

DnsPrefetchLinks(domains) ==
  [i \in 1..Len(domains) |-> [kind |-> "dns-prefetch", href |-> domains[i]]]

\* String.prototype.toLowerCase on one token
LowerToken(tok) ==
  CASE tok = "CSS" -> "css"
    [] tok = "JS" -> "js"
    [] OTHER -> tok

\* resource.split('.').pop(): what follows the last dot, the whole string without one
RECURSIVE LastPart(_)
LastPart(s) ==
  IF ~Includes(s, ".") THEN s
  ELSE LastPart(Tail(s))

\* ext === 'css' ? 'style' : ext === 'js' ? 'script' : 'fetch'
AsType(resource) ==
  LET ext == [i \in 1..Len(LastPart(resource)) |-> LowerToken(LastPart(resource)[i])]
  IN  IF ext = <<"css">> THEN "style" ELSE IF ext = <<"js">> THEN "script" ELSE "fetch"

PreloadLinks(list) ==
  [i \in 1..Len(JItems(list)) |->
     [kind |-> "preload", href |-> JItems(list)[i].v, as |-> AsType(JItems(list)[i].v)]]

\* resource.split exists for every item: each one is a string
AllStrings(list) == \A i \in 1..Len(JItems(list)) : JItems(list)[i].t = "str"

JsonLdScript(opts) ==
  IF JTruthy(OptField(opts, "jsonLd"))
  THEN <<[kind |-> "jsonld", payload |-> OptField(opts, "jsonLd")]>>
  ELSE <<>>

ViewportMetas == <<[kind |-> "meta-viewport"], [kind |-> "meta-compat"]>>

\* the head callback throws: a for..of over a value that is not iterable, or
\* resource.split on a value that is not a string
HeadThrows(ctx, opts) ==
  \/ ~JIterable(PreconnectDomains(ctx, opts))
  \/ /\ JTruthy(OptField(opts, "criticalResources"))
     /\ \/ ~JIterable(OptField(opts, "criticalResources"))
        \/ ~AllStrings(OptField(opts, "criticalResources"))

\* HeadRule with the base tag appended after the hints instead of prepended
HeadRuleBaseLast(el, ctx, opts, origin) ==
  LET e2 == elAppend(el, PreconnectLinks(PreconnectDomains(ctx, opts)))
      e3 == elAppend(e2, DnsPrefetchLinks(DnsPrefetchDomains(ctx)))
      e4 == elAppend(e3, JsonLdScript(opts))
      e5 == IF JTruthy(OptField(opts, "criticalResources"))
            THEN elAppend(e4, PreloadLinks(OptField(opts, "criticalResources")))
            ELSE e4
  IN  elAppend(elAppend(e5, ViewportMetas), <<BaseTag(origin)>>)

\* the element callback of rewriter.on('head')
HeadRule(el, ctx, opts, origin) ==
  LET e1 == elPrepend(el, BaseTag(origin))
      e2 == elAppend(e1, PreconnectLinks(PreconnectDomains(ctx, opts)))
      e3 == elAppend(e2, DnsPrefetchLinks(DnsPrefetchDomains(ctx)))
      e4 == elAppend(e3, JsonLdScript(opts))
      e5 == IF JTruthy(OptField(opts, "criticalResources"))
            THEN elAppend(e4, PreloadLinks(OptField(opts, "criticalResources")))
            ELSE e4
  IN  elAppend(e5, ViewportMetas)

\* MetaRule registered for every metaDescription that is not null or undefined
MetaRuleNonNull(el, opts) ==
  IF OptField(opts, "metaDescription").t \notin {"undefined", "null"}
  THEN setAttribute(el, "content", JText(OptField(opts, "metaDescription")))
  ELSE el

\* rewriter.on('meta[name="description"]'), registered only for a truthy suggestion
MetaRule(el, opts) ==
  IF JTruthy(OptField(opts, "metaDescription"))
  THEN setAttribute(el, "content", JText(OptField(opts, "metaDescription")))
  ELSE el

\* rewriter.on('img'): count is imageCount after imageCount++
ImgRule(el, count) ==
  LET e1 == IF count > 2 /\ ~Truthy(el, "loading")
            THEN setAttribute(el, "loading", <<"lazy">>) ELSE el
      e2 == IF count > 2 /\ ~Truthy(e1, "decoding")
            THEN setAttribute(e1, "decoding", <<"async">>) ELSE e1
  IN  IF ~Truthy(e2, "width") /\ ~Truthy(e2, "height") /\ count <= 2
      THEN setAttribute(e2, "fetchpriority", <<"high">>)
      ELSE e2

\* rewriter.on('iframe')
IframeRule(el) ==
  IF ~Truthy(el, "loading") THEN setAttribute(el, "loading", <<"lazy">>) ELSE el

IsTracker(src) ==
  Includes(src, "analytics") \/ Includes(src, "gtag") \/ Includes(src, "facebook")

\* rewriter.on('script[src]')
ScriptRule(el) ==
  IF /\ IsTracker(getAttributeOr(el, "src"))
     /\ ~Truthy(el, "async")
     /\ ~Truthy(el, "defer")
  THEN setAttribute(el, "async", <<>>)
  ELSE el

\* rewriter.on('link[rel="stylesheet"]')
StylesheetRule(el) ==
  IF Includes(getAttributeOr(el, "href"), "font") \/ Includes(getAttributeOr(el, "href"), "icon")
  THEN setAttribute(setAttribute(el, "media", <<"print">>), "onload", <<"this.media='all'">>)
  ELSE el

\* rewriter.on('body')
BodyRule(el) == elPrepend(el, [kind |-> "comment"])

\* the callbacks whose selector matches the element, applied to it
RewriteElement(el, count, ctx, opts, origin) ==
  CASE el.tag = "head" -> HeadRule(Emitted(el), ctx, opts, origin)
    [] IsDescriptionMeta(el) -> MetaRule(Emitted(el), opts)
    [] el.tag = "img" -> ImgRule(Emitted(el), count)
    [] el.tag = "iframe" -> IframeRule(Emitted(el))
    [] el.tag = "script" /\ hasAttribute(el, "src") -> ScriptRule(Emitted(el))
    [] el.tag = "link" /\ hasAttribute(el, "rel") /\ el.attrs["rel"] = <<"stylesheet">> ->
         StylesheetRule(Emitted(el))
    [] el.tag = "body" -> BodyRule(Emitted(el))
    [] OTHER -> Emitted(el)

\* a callback run for the element throws
RewriteThrows(el, ctx, opts) == el.tag = "head" /\ HeadThrows(ctx, opts)

----------------------------------------------------------------------------
(* Responses and the handler's result *)

NoHeaders == <<>>

headersGetOr(headers, name) == IF name \in DOMAIN headers THEN headers[name] ELSE <<>>

headersSet(headers, name, value) == (name :> value) @@ headers

\* what a fetch of the origin that does not raise resolves to
OriginResponse(s) == [headers |-> s.headers, body |-> s.doc, transformed |-> FALSE]

NoResponse == [headers |-> NoHeaders, body |-> <<>>, transformed |-> FALSE]

\* rewriter.transform(response) followed by the new Response with the added headers
OptimizedResponse(response) ==
  [headers |-> headersSet(headersSet(response.headers, "X-SiteFast-Optimized", <<"true">>),
                          "Cache-Control", <<"public, max-age=3600, s-maxage=86400">>),
   body |-> response.body,
   transformed |-> TRUE]

IsHtml(response) == Includes(headersGetOr(response.headers, "content-type"), "text/html")

NoResult == [kind |-> "none", response |-> NoResponse]

Returned(response) == [kind |-> "response", response |-> response]

\* the promise the handler returned was rejected
Rejected == [kind |-> "error", response |-> NoResponse]

\* origin fetches issued so far
OriginFetches(l) == Cardinality({i \in 1..Len(l) : l[i].ev = "fetch"})

\* outcome of the next fetch of the origin: fetch throws a TypeError for a URL
\* that does not parse, and rejects when the origin cannot be reached
NextFetchRaises ==
  IF UrlParses(originUrl) THEN site.fetches[OriginFetches(log) + 1] = "raise" ELSE TRUE

----------------------------------------------------------------------------
(* Inputs: requests, configurations, origin sites and advisor replies *)

Url(host, rest) == <<"http", "s", "://", host>> \o rest

Attr1(n, v) == n :> v

Attr2(n1, v1, n2, v2) == (n1 :> v1) @@ (n2 :> v2)

HtmlHeaders == Attr1("content-type", <<"text/html", ";", "charset=utf-8">>)

SmallDoc ==
  << El("head", NoAttrs),
     El("meta", Attr2("name", <<"description">>, "content", <<"old">>)),
     El("link", Attr2("rel", <<"stylesheet">>, "href", Url("cdn.example", <<"/", "font", ".", "css">>))),
     El("body", NoAttrs),
     El("img", Attr1("src", <<"/hero.png">>)) >>

PlainRequest == [params |-> <<>>, originHeader |-> <<>>, pathname |-> <<"/">>]

OriginRequest ==
  [params |-> <<[name |-> "origin", value |-> <<"shop.example">>], [name |-> "page", value |-> <<"2">>]>>,
   originHeader |-> <<>>, pathname |-> <<"/">>]

Env(key) == [ORIGIN_DOMAIN |-> <<"http", "s", "://", "site.example">>, GEMINI_API_KEY |-> key]

Site(fetches, bodyError, headers, doc) ==
  [fetches |-> fetches, bodyError |-> bodyError, headers |-> headers, doc |-> doc]

TextReply(text) == [kind |-> "text", text |-> text]

OtherReply(kind) == [kind |-> kind, text |-> <<>>]

\* a reply that is exactly one JSON object with the given members
ObjectReply(members) == TextReply(<<LBrace>> \o members \o <<RBrace>>)

FullSuggestionMembers ==
  << Key("jsonLd"), LBrace, RBrace,
     Member("metaDescription", JStr(<<"better">>)),
     Member("preconnectDomains", JArr(<<JStr(Url("cdn.example", <<>>))>>)),
     Member("criticalResources", JArr(<<JStr(<<"/app", ".", "css">>)>>)) >>

World(req, e, s, g) == [request |-> req, env |-> e, site |-> s, gemini |-> g]

ContentTypeHeaders ==
  { NoHeaders,
    HtmlHeaders,
    Attr1("content-type", <<"text/html">>),
    Attr1("content-type", <<"application/json">>),
    Attr1("content-type", <<"image/png">>) }

FetchOutcomes == [1..2 -> {"ok", "raise"}]

BasicReplies ==
  { OtherReply("reject"), OtherReply("badBody"), OtherReply("nullBody"),
    OtherReply("textNotString"), OtherReply("error"), OtherReply("noText"),
    ObjectReply(FullSuggestionMembers),
    TextReply(<<Prose, LBrace, Member("metaDescription", JNull), RBrace, Prose>>),
    TextReply(<<Prose, LBrace, Member("metaDescription", JStr(<<"better">>))>>) }

\* the orchestration inputs: every fetch outcome, content type, credential and
\* kind of advisor reply
PipelineWorlds ==
  { World(req, Env(key), Site(f, b, h, SmallDoc), g) :
      req \in {PlainRequest, OriginRequest}, key \in {<<>>, <<"secret">>},
      f \in FetchOutcomes, b \in BOOLEAN, h \in ContentTypeHeaders, g \in BasicReplies }

----------------------------------------------------------------------------
(* The handler *)

----------------------------------------------------------------------------
(* The bulk audit script: main() of the script, its files and the scoring   *)
(* API.  A domain is a string as parseCSV returns it.                        *)

SAVE_EVERY == 10

MaxKills == 2

NoFile == [kind |-> "none", completed |-> <<>>, results |-> <<>>]

\* what a writeFileSync that was cut short leaves behind: not JSON
TornFile == [kind |-> "garbage", completed |-> <<>>, results |-> <<>>]

\* saveProgress(completed, results): JSON.stringify({ completed, results })
saveProgress(completed, results) ==
  [kind |-> "json", completed |-> completed, results |-> results]

\* loadProgress(): the saved sets, or empty ones without a readable file
loadProgress(file) ==
  IF file.kind = "json"
  THEN [completed |-> file.completed, results |-> file.results]
  ELSE [completed |-> <<>>, results |-> <<>>]

\* parseCSV: the domain cell of every row, https:// put before a cell that
\* does not start with http, empty cells dropped
RECURSIVE parseCSV(_)
parseCSV(rows) ==
  IF rows = <<>> THEN <<>>
  ELSE LET cell == Head(rows)
           domain == IF cell # <<>> /\ ~StartsWith(cell, "http")
                     THEN <<"http", "s", "://">> \o cell ELSE cell
       IN  (IF domain = <<>> THEN <<>> ELSE <<domain>>) \o parseCSV(Tail(rows))

\* completed.has(domain)
SetHas(s, x) == \E i \in 1..Len(s) : s[i] = x

\* auditDomain: always a result, with the error field set when the call failed
auditDomain(domain) == [domain |-> domain, error |-> domain \in pagespeed]

\* no audit process
NoProcess ==
  [pc |-> "off", domains |-> <<>>, completed |-> <<>>, results |-> <<>>, i |-> 0,
   count |-> 0, resumed |-> <<>>, audited |-> <<>>]

\* a process at the entry of main()
NewProcess == [NoProcess EXCEPT !.pc = "start"]

\* main() up to the loop: input file check, parseCSV, loadProgress
AuditStart ==
  /\ main.pc = "start"
  /\ IF ~leads.exists
     THEN main' = [main EXCEPT !.pc = "exit1"]
     ELSE LET progress == loadProgress(progressFile)
          IN  main' = [main EXCEPT !.pc = "loop",
                                   !.domains = parseCSV(leads.rows),
                                   !.completed = progress.completed,
                                   !.results = progress.results,
                                   !.resumed = progress.completed,
                                   !.count = Len(progress.completed),
                                   !.i = 1]
  /\ UNCHANGED <<handlerVars, leads, pagespeed, progressFile, outputFile, kills>>

\* AuditLoop without the test of completed: every row is audited
AuditLoopNoSkip ==
  /\ main.pc = "loop"
  /\ main.i <= Len(main.domains)
  /\ LET domain == main.domains[main.i]
         count == main.count + 1
         results == Append(main.results, auditDomain(domain))
         completed == SetAdd(main.completed, domain)
     IN  /\ main' = [main EXCEPT !.count = count, !.results = results,
                                  !.completed = completed,
                                  !.audited = Append(@, domain), !.i = @ + 1]
         /\ progressFile' = IF count % SAVE_EVERY = 0
                             THEN saveProgress(completed, results) ELSE progressFile
  /\ UNCHANGED <<handlerVars, leads, pagespeed, outputFile, kills>>

\* one iteration of for (const domain of domains)
AuditLoop ==
  /\ main.pc = "loop"
  /\ main.i <= Len(main.domains)
  /\ LET domain == main.domains[main.i]
         count == main.count + 1
         results == Append(main.results, auditDomain(domain))
         completed == SetAdd(main.completed, domain)
     IN  IF SetHas(main.completed, domain)
         THEN /\ main' = [main EXCEPT !.i = @ + 1]
              /\ UNCHANGED progressFile
         ELSE /\ main' = [main EXCEPT !.count = count, !.results = results,
                                       !.completed = completed,
                                       !.audited = Append(@, domain), !.i = @ + 1]
              /\ progressFile' = IF count % SAVE_EVERY = 0
                                  THEN saveProgress(completed, results) ELSE progressFile
  /\ UNCHANGED <<handlerVars, leads, pagespeed, outputFile, kills>>

\* after the loop: writeCSV(results), unlink of the progress file
AuditFinish ==
  /\ main.pc = "loop"
  /\ main.i > Len(main.domains)
  /\ outputFile' = [exists |-> TRUE, rows |-> main.results]
  /\ progressFile' = NoFile
  /\ main' = [main EXCEPT !.pc = "done"]
  /\ UNCHANGED <<handlerVars, leads, pagespeed, kills>>

\* the process is killed during the loop and the script is started again:
\* the files stay, the locals of main() are lost
AuditKill ==
  /\ main.pc = "loop"
  /\ kills < MaxKills
  /\ kills' = kills + 1
  /\ main' = NewProcess
  /\ UNCHANGED <<handlerVars, leads, pagespeed, progressFile, outputFile>>

\* the process is killed while saveProgress writes the file
AuditKillSaving ==
  /\ main.pc = "loop"
  /\ main.i <= Len(main.domains)
  /\ ~SetHas(main.completed, main.domains[main.i])
  /\ (main.count + 1) % SAVE_EVERY = 0
  /\ kills < MaxKills
  /\ kills' = kills + 1
  /\ progressFile' = TornFile
  /\ main' = NewProcess
  /\ UNCHANGED <<handlerVars, leads, pagespeed, outputFile>>

NextAudit ==
  \/ AuditStart
  \/ AuditLoop
  \/ AuditFinish
  \/ AuditKill
  \/ AuditKillSaving

\* the audit script is not running
AuditOff ==
  /\ leads = [exists |-> FALSE, rows |-> <<>>]
  /\ pagespeed = {}
  /\ progressFile = NoFile
  /\ outputFile = [exists |-> FALSE, rows |-> <<>>]
  /\ main = NoProcess
  /\ kills = 0

\* the state of one invocation of the handler at its entry
InitHandler(worlds) ==
  /\ \E w \in worlds :
       /\ request = w.request
       /\ env = w.env
       /\ site = w.site
       /\ gemini = w.gemini
  /\ pc = "start"
  /\ originDomain = <<>>
  /\ originUrl = <<>>
  /\ originalResponse = NoResponse
  /\ pageContext = EmptyContext
  /\ geminiOptimizations = NoSuggestion
  /\ log = <<>>
  /\ raised = "none"
  /\ result = NoResult
  /\ stream = "none"
  /\ pos = 1
  /\ imageCount = 0
  /\ out = <<>>

\* one request, handled alone
InitWith(worlds) ==
  /\ InitHandler(worlds)
  /\ peers = <<>>
  /\ AuditOff

Init == InitWith(PipelineWorlds)

\* the origin is resolved and the upstream URL built
Resolve ==
  /\ pc = "start"
  /\ originDomain' = ResolveOrigin(request, env)
  /\ originUrl' = UpstreamUrl(request, env)
  /\ pc' = "fetch"
  /\ UNCHANGED <<auditVars, peers, inputs, originalResponse, pageContext, geminiOptimizations, log, raised,
                 result, stream, pos, imageCount, out>>

\* await fetch(originUrl, {headers, cf})
FetchOrigin ==
  /\ pc = "fetch"
  /\ log' = Append(log, [ev |-> "fetch", url |-> originUrl, options |-> TRUE])
  /\ IF NextFetchRaises
     THEN /\ pc' = "catch"
          /\ raised' = "fetch"
          /\ UNCHANGED originalResponse
     ELSE /\ pc' = "checkType"
          /\ originalResponse' = OriginResponse(site)
          /\ UNCHANGED raised
  /\ UNCHANGED <<auditVars, peers, inputs, originDomain, originUrl, pageContext, geminiOptimizations,
                 result, stream, pos, imageCount, out>>

\* PassThrough with the optimizer's headers put on the response it returns
PassThroughMarked ==
  /\ pc = "checkType"
  /\ ~IsHtml(originalResponse)
  /\ result' = Returned([OptimizedResponse(originalResponse) EXCEPT !.transformed = FALSE])
  /\ pc' = "done"
  /\ UNCHANGED <<auditVars, peers, inputs, originDomain, originUrl, originalResponse, pageContext,
                 geminiOptimizations, log, raised, stream, pos, imageCount, out>>

\* if (!contentType.includes('text/html')) return originalResponse
PassThrough ==
  /\ pc = "checkType"
  /\ ~IsHtml(originalResponse)
  /\ result' = Returned(originalResponse)
  /\ pc' = "done"
  /\ UNCHANGED <<auditVars, peers, inputs, originDomain, originUrl, originalResponse, pageContext,
                 geminiOptimizations, log, raised, stream, pos, imageCount, out>>

\* await contextRewriter.transform(originalResponse.clone()).text()
Extract ==
  /\ pc = "checkType"
  /\ IsHtml(originalResponse)
  /\ log' = Append(log, [ev |-> "extract"])
  /\ IF site.bodyError
     THEN /\ pc' = "catch"
          /\ raised' = "extract"
          /\ UNCHANGED pageContext
     ELSE /\ pc' = "advise"
          /\ pageContext' = ExtractContext(originalResponse.body)
          /\ UNCHANGED raised
  /\ UNCHANGED <<auditVars, peers, inputs, originDomain, originUrl, originalResponse, geminiOptimizations,
                 result, stream, pos, imageCount, out>>

\* SkipAdvisor that gives the page up with the advisor: the origin response is returned
SkipAdvisorAndPipeline ==
  /\ pc = "advise"
  /\ env.GEMINI_API_KEY = <<>>
  /\ result' = Returned(originalResponse)
  /\ pc' = "done"
  /\ UNCHANGED <<auditVars, peers, inputs, originDomain, originUrl, originalResponse, pageContext,
                 geminiOptimizations, log, raised, stream, pos, imageCount, out>>

\* no GEMINI_API_KEY: geminiOptimizations stays null
SkipAdvisor ==
  /\ pc = "advise"
  /\ env.GEMINI_API_KEY = <<>>
  /\ pc' = "rewrite"
  /\ UNCHANGED <<auditVars, peers, inputs, originDomain, originUrl, originalResponse, pageContext,
                 geminiOptimizations, log, raised, result, stream, pos, imageCount, out>>

\* CallAdvisor around a generateOptimizations without its try/catch: a failed
\* call reaches the catch block of the handler
CallAdvisorUncaught ==
  /\ pc = "advise"
  /\ env.GEMINI_API_KEY # <<>>
  /\ log' = Append(log, [ev |-> "advisor"])
  /\ IF gemini.kind \in ThrowingReplies
     THEN /\ pc' = "catch"
          /\ raised' = "extract"
          /\ UNCHANGED geminiOptimizations
     ELSE /\ pc' = "rewrite"
          /\ geminiOptimizations' = generateOptimizations(gemini)
          /\ UNCHANGED raised
  /\ UNCHANGED <<auditVars, peers, inputs, originDomain, originUrl, originalResponse, pageContext,
                 result, stream, pos, imageCount, out>>

\* geminiOptimizations = await generateOptimizations(...)
CallAdvisor ==
  /\ pc = "advise"
  /\ env.GEMINI_API_KEY # <<>>
  /\ log' = Append(log, [ev |-> "advisor"])
  /\ geminiOptimizations' = generateOptimizations(gemini)
  /\ pc' = "rewrite"
  /\ UNCHANGED <<auditVars, peers, inputs, originDomain, originUrl, originalResponse, pageContext,
                 raised, result, stream, pos, imageCount, out>>

\* Respond that does not wait for the advisor step
RespondEarly ==
  /\ pc \in {"advise", "rewrite"}
  /\ log' = Append(log, [ev |-> "transform"])
  /\ result' = Returned(OptimizedResponse(originalResponse))
  /\ stream' = "open"
  /\ pos' = 1
  /\ imageCount' = 0
  /\ out' = <<>>
  /\ pc' = "done"
  /\ UNCHANGED <<auditVars, peers, inputs, originDomain, originUrl, originalResponse, pageContext,
                 geminiOptimizations, raised>>

\* applyOptimizations, the added headers and the returned Response; the body is
\* a stream the runtime reads after the handler has returned
Respond ==
  /\ pc = "rewrite"
  /\ log' = Append(log, [ev |-> "transform"])
  /\ result' = Returned(OptimizedResponse(originalResponse))
  /\ stream' = "open"
  /\ pos' = 1
  /\ imageCount' = 0
  /\ out' = <<>>
  /\ pc' = "done"
  /\ UNCHANGED <<auditVars, peers, inputs, originDomain, originUrl, originalResponse, pageContext,
                 geminiOptimizations, raised>>

\* Fallback that runs the fetched page through the optimizer's response construction
FallbackOptimized ==
  /\ pc = "catch"
  /\ log' = Append(log, [ev |-> "fetch", url |-> originUrl, options |-> FALSE])
  /\ result' = IF NextFetchRaises THEN Rejected
               ELSE Returned(OptimizedResponse(OriginResponse(site)))
  /\ pc' = "done"
  /\ UNCHANGED <<auditVars, peers, inputs, originDomain, originUrl, originalResponse, pageContext,
                 geminiOptimizations, raised, stream, pos, imageCount, out>>

\* catch (error) { return fetch(originUrl) }
Fallback ==
  /\ pc = "catch"
  /\ log' = Append(log, [ev |-> "fetch", url |-> originUrl, options |-> FALSE])
  /\ result' = IF NextFetchRaises THEN Rejected ELSE Returned(OriginResponse(site))
  /\ pc' = "done"
  /\ UNCHANGED <<auditVars, peers, inputs, originDomain, originUrl, originalResponse, pageContext,
                 geminiOptimizations, raised, stream, pos, imageCount, out>>

\* RewriteNext with the extraction handlers registered on the rewrite pass too
RewriteNextExtracting ==
  /\ stream = "open"
  /\ pos <= Len(result.response.body)
  /\ LET el == result.response.body[pos]
         count == IF el.tag = "img" THEN imageCount + 1 ELSE imageCount
     IN  IF RewriteThrows(el, pageContext, geminiOptimizations)
         THEN /\ stream' = "failed"
              /\ UNCHANGED <<pos, imageCount, out, pageContext>>
         ELSE /\ out' = Append(out, RewriteElement(el, count, pageContext,
                                                   geminiOptimizations, originDomain))
              /\ imageCount' = count
              /\ pos' = pos + 1
              /\ pageContext' = ContextStep(pageContext, el)
              /\ UNCHANGED stream
  /\ UNCHANGED <<auditVars, peers, inputs, pc, originDomain, originUrl, originalResponse,
                 geminiOptimizations, log, raised, result>>

\* the runtime pulls the body: the callbacks run for the next element
RewriteNext ==
  /\ stream = "open"
  /\ pos <= Len(result.response.body)
  /\ LET el == result.response.body[pos]
         count == IF el.tag = "img" THEN imageCount + 1 ELSE imageCount
     IN  IF RewriteThrows(el, pageContext, geminiOptimizations)
         THEN /\ stream' = "failed"
              /\ UNCHANGED <<pos, imageCount, out>>
         ELSE /\ out' = Append(out, RewriteElement(el, count, pageContext,
                                                   geminiOptimizations, originDomain))
              /\ imageCount' = count
              /\ pos' = pos + 1
              /\ UNCHANGED stream
  /\ UNCHANGED <<auditVars, peers, inputs, pc, originDomain, originUrl, originalResponse, pageContext,
                 geminiOptimizations, log, raised, result>>

\* the origin body is exhausted
StreamEnd ==
  /\ stream = "open"
  /\ pos > Len(result.response.body)
  /\ stream' = "closed"
  /\ UNCHANGED <<auditVars, peers, inputs, pc, originDomain, originUrl, originalResponse, pageContext,
                 geminiOptimizations, log, raised, result, pos, imageCount, out>>

\* the rewrite pass of another request: applyOptimizations was called for its
\* response (no suggestion), with its own imageCount
Pass(body) == [body |-> body, stream |-> "open", pos |-> 1, imageCount |-> 0, out |-> <<>>]

\* PeerRewriteNext counting in one imageCount shared by all passes
PeerRewriteNextShared(p) ==
  /\ peers[p].stream = "open"
  /\ peers[p].pos <= Len(peers[p].body)
  /\ LET el == peers[p].body[peers[p].pos]
         count == IF el.tag = "img" THEN imageCount + 1 ELSE imageCount
     IN  /\ peers' = [peers EXCEPT ![p].out =
                        Append(@, RewriteElement(el, count, ExtractContext(peers[p].body),
                                                 NoSuggestion, DefaultOrigin)),
                                   ![p].pos = @ + 1]
         /\ imageCount' = count
  /\ UNCHANGED <<auditVars, inputs, pc, originDomain, originUrl, originalResponse, pageContext,
                 geminiOptimizations, log, raised, result, stream, pos, out>>

\* the runtime pulls the body of another request: its callbacks run for its
\* next element
PeerRewriteNext(p) ==
  /\ peers[p].stream = "open"
  /\ peers[p].pos <= Len(peers[p].body)
  /\ LET el == peers[p].body[peers[p].pos]
         count == IF el.tag = "img" THEN peers[p].imageCount + 1 ELSE peers[p].imageCount
     IN  peers' = [peers EXCEPT ![p].out =
                     Append(@, RewriteElement(el, count, ExtractContext(peers[p].body),
                                              NoSuggestion, DefaultOrigin)),
                                ![p].imageCount = count,
                                ![p].pos = @ + 1]
  /\ UNCHANGED <<auditVars, inputs, pc, originDomain, originUrl, originalResponse, pageContext,
                 geminiOptimizations, log, raised, result, stream, pos, imageCount, out>>

\* the body of another request is exhausted
PeerStreamEnd(p) ==
  /\ peers[p].stream = "open"
  /\ peers[p].pos > Len(peers[p].body)
  /\ peers' = [peers EXCEPT ![p].stream = "closed"]
  /\ UNCHANGED <<auditVars, inputs, pc, originDomain, originUrl, originalResponse, pageContext,
                 geminiOptimizations, log, raised, result, stream, pos, imageCount, out>>

PeerRewrite == \E p \in DOMAIN peers : PeerRewriteNext(p)

PeerEnd == \E p \in DOMAIN peers : PeerStreamEnd(p)

Next ==
  \/ Resolve
  \/ FetchOrigin
  \/ PassThrough
  \/ Extract
  \/ SkipAdvisor
  \/ CallAdvisor
  \/ Respond
  \/ Fallback
  \/ RewriteNext
  \/ StreamEnd

Spec == Init /\ [][Next]_vars

----------------------------------------------------------------------------
(* Further input families, each run through the same handler.  Every family *)
(* contains SmokeWorlds, so that each of them takes every path of the        *)
(* handler.                                                                  *)

MaxReplyLen == 4
MaxDomains == 11
MaxSuggested == 6
MaxImages == 4

OkOk == [i \in 1..2 |-> "ok"]

RaiseOk == [i \in 1..2 |-> IF i = 1 THEN "raise" ELSE "ok"]

JsonHeaders == Attr1("content-type", <<"application/json">>)

SmokeWorlds ==
  { World(PlainRequest, Env(key), Site(f, FALSE, h, SmallDoc), OtherReply("reject")) :
      key \in {<<>>, <<"secret">>}, f \in {OkOk, RaiseOk}, h \in {HtmlHeaders, JsonHeaders} }

\* a reachable origin serving d as HTML, the advisor configured and answering g
HtmlWorld(d, g) == World(PlainRequest, Env(<<"secret">>), Site(OkOk, FALSE, HtmlHeaders, d), g)

\* replies that parse as JSON and whose fields are not what the prompt asked for
ShapeReplies ==
  { ObjectReply(<<Member(f, v)>>) :
      f \in {"preconnectDomains", "criticalResources", "metaDescription", "jsonLd"},
      v \in { JNum(5), JNum(0), JObj, JNull, JStr(<<"cdn.example">>), JStr(<<>>),
              JArr(<<>>), JArr(<<JNum(1)>>), JArr(<<JStr(<<"/app", ".", "js">>)>>) } }

ShapeWorlds ==
  { World(PlainRequest, Env(<<"secret">>), Site(OkOk, b, HtmlHeaders, SmallDoc), g) :
      b \in BOOLEAN, g \in ShapeReplies }

InitShapes == InitWith(ShapeWorlds \cup SmokeWorlds)

SpecShapes == InitShapes /\ [][Next]_vars

\* every reply text of at most n tokens
ReplyTokens ==
  { LBrace, RBrace, Prose, Key("jsonLd"),
    Member("metaDescription", JStr(<<"better">>)),
    Member("preconnectDomains", JArr(<<JStr(Url("cdn.example", <<>>))>>)) }

ReplyTexts(n) == UNION { [1..k -> ReplyTokens] : k \in 0..n }

AdvisorWorlds ==
  { HtmlWorld(<<El("head", NoAttrs)>>, g) :
      g \in { TextReply(t) : t \in ReplyTexts(MaxReplyLen) }
            \cup { OtherReply(k) : k \in ThrowingReplies \cup {"error", "noText"} } }

InitAdvisor == InitWith(AdvisorWorlds \cup SmokeWorlds)

SpecAdvisor == InitAdvisor /\ [][Next]_vars

Host(i) == "cdn" \o ToString(i) \o ".example"

\* h head elements, n stylesheet links to n distinct origins, then a script
\* from the first origin again and a link with a relative href
DomainDoc(h, n) ==
  [i \in 1..h |-> El("head", NoAttrs)]
  \o [i \in 1..n |-> El("link", Attr2("rel", <<"stylesheet">>, "href", Url(Host(i), <<"/", "main", ".", "css">>)))]
  \o (IF n >= 1 THEN <<El("script", Attr1("src", Url(Host(1), <<"/", "app", ".", "js">>)))>> ELSE <<>>)
  \o <<El("link", Attr2("rel", <<"icon">>, "href", <<"/", "favicon", ".", "ico">>))>>

SuggestedList(k) == JArr([i \in 1..k |-> JStr(Url("hint" \o ToString(i) \o ".example", <<>>))])

HeadReplies ==
  { OtherReply("reject"), ObjectReply(FullSuggestionMembers),
    ObjectReply(<<Member("preconnectDomains", JNull), Key("jsonLd"), LBrace, RBrace>>) }
  \cup { ObjectReply(<<Member("preconnectDomains", SuggestedList(k))>>) : k \in 0..MaxSuggested }

HeadWorlds == { HtmlWorld(DomainDoc(h, n), g) : h \in 0..2, n \in 0..MaxDomains, g \in HeadReplies }

InitHead == InitWith(HeadWorlds \cup SmokeWorlds)

SpecHead == InitHead /\ [][Next]_vars

\* an attribute of an element in the source: absent, present with an empty
\* value (loading="" or a bare name), or present with the given value
AttrChoices == {"absent", "empty", "given"}

ChosenAttrs(choice, given) ==
  [a \in {b \in DOMAIN choice : choice[b] # "absent"} |->
     IF choice[a] = "empty" THEN <<>> ELSE given[a]]

ImgGiven ==
  [loading |-> <<"eager">>, decoding |-> <<"sync">>, width |-> <<"640">>, height |-> <<"480">>]

PlainImg == El("img", Attr1("src", <<"/photo.png">>))

\* an iframe, then n images of which the k-th has the chosen attributes
ImageDoc(n, k, choice) ==
  <<El("iframe", Attr1("src", Url("video.example", <<>>)))>>
  \o [i \in 1..n |-> IF i = k THEN El("img", Attr1("src", <<"/probe.png">>) @@ ChosenAttrs(choice, ImgGiven))
                     ELSE PlainImg]

ImageWorlds ==
  { HtmlWorld(ImageDoc(n, k, c), OtherReply("reject")) :
      n \in 1..MaxImages, k \in 1..MaxImages, c \in [DOMAIN ImgGiven -> AttrChoices] }

InitImages == InitWith(ImageWorlds \cup SmokeWorlds)

SpecImages == InitImages /\ [][Next]_vars

ScriptGiven == [async |-> <<"async">>, defer |-> <<"defer">>]

ScriptSources ==
  { Url("www.googletagmanager.com", <<"/", "gtag", "/js">>),
    Url("www.google-", <<"analytics", ".com/analytics.js">>),
    Url("connect.", <<"facebook", ".net/sdk.js">>),
    Url("cdn.example", <<"/", "app", ".", "js">>) }

ScriptDoc(src, choice) ==
  << El("script", Attr1("src", src) @@ ChosenAttrs(choice, ScriptGiven)),
     El("script", NoAttrs) >>

ScriptWorlds ==
  { HtmlWorld(ScriptDoc(src, c), OtherReply("reject")) :
      src \in ScriptSources, c \in [DOMAIN ScriptGiven -> AttrChoices] }

InitScripts == InitWith(ScriptWorlds \cup SmokeWorlds)

SpecScripts == InitScripts /\ [][Next]_vars

\* a head, k description metas whose content attribute is as chosen, a keywords
\* meta and a body
MetaDoc(k, choice) ==
  <<El("head", NoAttrs)>>
  \o [i \in 1..k |-> El("meta", Attr1("name", <<"description">>)
                               @@ ChosenAttrs([content |-> choice], [content |-> <<"old">>]))]
  \o << El("meta", Attr2("name", <<"keywords">>, "content", <<"a,b">>)),
        El("body", NoAttrs) >>

MetaReplies ==
  { OtherReply("reject"), ObjectReply(<<Key("jsonLd"), LBrace, RBrace>>) }
  \cup { ObjectReply(<<Member("metaDescription", v)>>) :
           v \in {JNull, JStr(<<"better">>), JStr(<<>>), JNum(5), JNum(0)} }

MetaWorlds ==
  { HtmlWorld(MetaDoc(k, c), g) : k \in 0..2, c \in AttrChoices, g \in MetaReplies }

InitMeta == InitWith(MetaWorlds \cup SmokeWorlds)

SpecMeta == InitMeta /\ [][Next]_vars

Param(name, value) == [name |-> name, value |-> value]

\* spellings of an origin value: not given, a bare hostname, a hostname that
\* begins with the letters http, and URLs with a scheme in several spellings
OriginValues(host) ==
  { <<>>,
    <<host>>,
    <<"http", "bin.org">>,
    <<"http", "s", "://", host>>,
    <<"http", "://", host>>,
    <<"HTTPS", "://", host>>,
    <<"ftp", "://", host>> }

\* query strings: without the origin parameter, with it alone, with it between
\* other parameters, and with it twice
OriginParams ==
  { <<>>, <<Param("page", <<"2">>)>> }
  \cup { <<Param("origin", v)>> : v \in OriginValues("shop.example") }
  \cup { <<Param("page", <<"2">>), Param("origin", v), Param("q", <<"x">>)>> :
           v \in OriginValues("shop.example") }
  \cup { <<Param("origin", v), Param("origin", <<"second.example">>)>> :
           v \in OriginValues("shop.example") }

EnvWith(origin, key) == [ORIGIN_DOMAIN |-> origin, GEMINI_API_KEY |-> key]

OriginWorlds ==
  { World([params |-> ps, originHeader |-> h, pathname |-> path],
          EnvWith(o, <<>>), Site(OkOk, FALSE, JsonHeaders, SmallDoc), OtherReply("reject")) :
      ps \in OriginParams,
      h \in {<<>>, <<"hdr.example">>, <<"http", "://", "hdr.example">>},
      o \in {<<>>, <<"env.example">>, <<"http", "s", "://", "env.example">>},
      path \in {<<"/">>, <<"/", "blog/post">>} }

InitOrigin == InitWith(OriginWorlds \cup SmokeWorlds)

SpecOrigin == InitOrigin /\ [][Next]_vars

MaxElements == 3

\* elements the extraction selectors meet: links and scripts with absolute
\* URLs (one origin in two spellings and under two schemes), with a relative,
\* a scheme-relative and an unparsable URL, an inline script, a link without
\* href, and images with a src, with an empty src and without one
ExtractSamples ==
  { El("link", Attr2("rel", <<"stylesheet">>, "href", Url("cdn1.example", <<"/", "main", ".", "css">>))),
    El("link", Attr1("href", Url("CDN1.example", <<"/", "print", ".", "css">>))),
    El("script", Attr1("src", Url("cdn2.example", <<"/", "app", ".", "js">>))),
    El("script", Attr1("src", <<"http", "://", "cdn1.example", "/", "old", ".", "js">>)),
    El("link", Attr2("rel", <<"icon">>, "href", <<"/", "favicon", ".", "ico">>)),
    El("script", Attr1("src", <<"//", "cdn3.example", "/", "lib", ".", "js">>)),
    El("link", Attr1("href", <<"http", "://">>)),
    El("script", NoAttrs),
    El("link", Attr1("rel", <<"canonical">>)),
    El("img", Attr1("src", <<"/a.png">>)),
    El("img", Attr1("src", Url("cdn4.example", <<"/", "b", ".", "png">>))),
    El("img", Attr1("src", <<>>)),
    El("img", Attr1("alt", <<"logo">>)) }

ExtractDocs == UNION { [1..n -> ExtractSamples] : n \in 0..MaxElements }

ExtractWorlds ==
  { World(PlainRequest, Env(<<>>), Site(OkOk, FALSE, HtmlHeaders, d), OtherReply("reject")) :
      d \in ExtractDocs }

InitExtract == InitWith(ExtractWorlds \cup SmokeWorlds)

SpecExtract == InitExtract /\ [][Next]_vars

MaxResources == 2

\* resources a suggestion may list: stylesheets, scripts, an image, a path
\* without extension, an extension in upper case, a second dot, and a query
\* string after the extension
ResourceSamples ==
  { <<"/app", ".", "css">>,
    <<"/app", ".", "js">>,
    <<"/logo", ".", "png">>,
    <<"/assets/bundle">>,
    <<"/theme", ".", "CSS">>,
    <<"/lib", ".", "min", ".", "js">>,
    <<"/app", ".", "css", "?v=2">> }

ResourceLists == UNION { [1..n -> ResourceSamples] : n \in 0..MaxResources }

PreloadReplies ==
  { OtherReply("reject"), ObjectReply(<<Member("criticalResources", JNull)>>) }
  \cup { ObjectReply(<<Member("criticalResources",
                               JArr([i \in 1..Len(l) |-> JStr(l[i])]))>>) : l \in ResourceLists }

PreloadWorlds == { HtmlWorld(DomainDoc(h, 1), g) : h \in 1..2, g \in PreloadReplies }

InitPreload == InitWith(PreloadWorlds \cup SmokeWorlds)

SpecPreload == InitPreload /\ [][Next]_vars

MaxPeers == 1

\* an iframe and n images without attributes other than src
PlainImageDoc(n) == ImageDoc(n, 1, [a \in DOMAIN ImgGiven |-> "absent"])

ConcurrentWorlds ==
  { HtmlWorld(PlainImageDoc(n), OtherReply("reject")) : n \in 0..MaxImages }

\* the passes of the other requests, each over a document of its own
PeerPasses == [1..MaxPeers -> {Pass(PlainImageDoc(m)) : m \in 0..MaxImages}]

InitConcurrent ==
  /\ InitHandler(ConcurrentWorlds \cup SmokeWorlds)
  /\ peers \in PeerPasses
  /\ AuditOff

\* the handler of one request and the rewrite passes of the others, their
\* callbacks interleaved in any order
NextConcurrent == Next \/ PeerRewrite \/ PeerEnd

SpecConcurrent == InitConcurrent /\ [][NextConcurrent]_vars

MaxLeads == 21

LeadHost(i) == "lead" \o ToString(i) \o ".com"

\* the domain column of leads.csv: n distinct hosts, row by row
PlainRows(n) == [i \in 1..n |-> <<LeadHost(i)>>]

\* the same with an empty cell and the first host again, as a URL, after
\* the first row, and the first host once more at the end
MessyRows(n) ==
  IF n = 0 THEN << <<>> >>
  ELSE << <<LeadHost(1)>>, <<>>, <<"http", "s", "://", LeadHost(1)>> >>
       \o [i \in 1..(n - 1) |-> <<LeadHost(i + 1)>>]
       \o << <<LeadHost(1)>> >>

LeadsFiles ==
  { [exists |-> FALSE, rows |-> <<>>] }
  \cup { [exists |-> TRUE, rows |-> PlainRows(n)] : n \in 0..MaxLeads }
  \cup { [exists |-> TRUE, rows |-> MessyRows(n)] : n \in 0..MaxLeads }

\* the script is started on leads.csv, without progress or output file; no
\* request is being handled
InitAudit ==
  /\ InitHandler({HtmlWorld(SmallDoc, OtherReply("reject"))})
  /\ peers = <<>>
  /\ leads \in LeadsFiles
  /\ pagespeed \in {{}, {<<"http", "s", "://", LeadHost(1)>>, <<"http", "s", "://", LeadHost(10)>>}}
  /\ progressFile = NoFile
  /\ outputFile = [exists |-> FALSE, rows |-> <<>>]
  /\ main = NewProcess
  /\ kills = 0

SpecAudit == InitAudit /\ [][NextAudit]_vars

----------------------------------------------------------------------------
(* Properties of the orchestration *)

Events(kind) == {i \in 1..Len(log) : log[i].ev = kind}

FallbackFetches == {i \in Events("fetch") : ~log[i].options}

HasMarker(response) == "X-SiteFast-Optimized" \in DOMAIN response.headers

\* C1: when a stage inside the try block raised, the handler has issued exactly
\* one fallback fetch, of the URL of the first fetch, and what it returns is
\* that fetch's outcome: the origin's response with the origin's headers and
\* body, not transformed, without the X-SiteFast-Optimized header, and no
\* rewrite callback ever runs.
C1_FallbackOnException ==
  /\ raised # "none" => pc \in {"catch", "done"}
  /\ pc = "catch" => raised # "none" /\ FallbackFetches = {}
  /\ (pc = "done" /\ raised # "none") =>
       /\ Cardinality(FallbackFetches) = 1
       /\ \A i \in FallbackFetches : i = Len(log) /\ log[i].url = log[1].url
       /\ Events("transform") = {}
       /\ stream = "none" /\ out = <<>>
       /\ IF site.fetches[2] = "ok"
          THEN /\ result.kind = "response"
               /\ result.response.headers = site.headers
               /\ result.response.body = site.doc
               /\ ~result.response.transformed
               /\ ~HasMarker(result.response)
          ELSE result.kind = "error"

\* an exception of the extraction pass ended in the fallback response
C1_Witness ==
  /\ pc = "done"
  /\ raised = "extract"
  /\ result.kind = "response"
  /\ Cardinality(FallbackFetches) = 1

\* C2: whatever the origin and the advisor answer, the handler never ends in a
\* rejected promise and the body it returned never fails while the rewrite
\* callbacks run.
C2_NoErrorSurface == result.kind # "error" /\ stream # "failed"

\* the content-type header is missing or does not contain text/html
C3_NotHtml ==
  \/ "content-type" \notin DOMAIN site.headers
  \/ \A i \in 1..Len(site.headers["content-type"]) : site.headers["content-type"][i] # "text/html"

\* C3: for an origin response whose content-type does not indicate HTML the
\* handler returns that response itself: same headers (no marker, no
\* Cache-Control added), same body, not transformed; the extraction pass, the
\* advisor call and the rewrite pass are never started.
C3_NonHtmlPassThrough ==
  (C3_NotHtml /\ raised = "none") =>
     /\ Events("extract") = {} /\ Events("advisor") = {} /\ Events("transform") = {}
     /\ pageContext = EmptyContext /\ geminiOptimizations = NoSuggestion
     /\ stream = "none" /\ out = <<>>
     /\ pc \in {"start", "fetch", "checkType", "done"}
     /\ pc = "done" =>
          /\ result.kind = "response"
          /\ result.response.headers = site.headers
          /\ result.response.body = site.doc
          /\ ~result.response.transformed
          /\ Cardinality(Events("fetch")) = 1

\* a response without content-type was returned as fetched
C3_Witness ==
  /\ pc = "done"
  /\ raised = "none"
  /\ site.headers = NoHeaders
  /\ result.kind = "response"

\* C5: without GEMINI_API_KEY no advisor request is issued and the suggestion
\* is absent; an HTML page whose handling raised nothing still goes through
\* extraction and the rewrite pass and is returned marked as optimized.
C5_NoKeyNoAdvisor ==
  env.GEMINI_API_KEY = <<>> =>
     /\ Events("advisor") = {}
     /\ geminiOptimizations = NoSuggestion
     /\ (pc = "done" /\ raised = "none" /\ ~C3_NotHtml) =>
          /\ Cardinality(Events("extract")) = 1
          /\ Cardinality(Events("transform")) = 1
          /\ result.kind = "response"
          /\ result.response.transformed
          /\ HasMarker(result.response)
          /\ result.response.headers["X-SiteFast-Optimized"] = <<"true">>
          /\ stream # "none"

\* without a key the whole page went through the rewrite pass
C5_Witness ==
  /\ env.GEMINI_API_KEY = <<>>
  /\ stream = "closed"
  /\ Len(out) = Len(site.doc)
  /\ HasMarker(result.response)

----------------------------------------------------------------------------
(* Properties of the advisor *)

\* the reply text from its first opening brace to its last closing brace
C4_Opens == {i \in 1..Len(gemini.text) : gemini.text[i] = LBrace}

C4_Closes == {i \in 1..Len(gemini.text) : gemini.text[i] = RBrace}

C4_HasSpan == \E a \in C4_Opens : \E b \in C4_Closes : a < b

C4_Span ==
  LET a == CHOOSE i \in C4_Opens : \A j \in C4_Opens : i <= j
      b == CHOOSE i \in C4_Closes : \A j \in C4_Closes : i >= j
  IN  [i \in 1..(b - a + 1) |-> gemini.text[a + i - 1]]

\* open braces minus closed braces among the first i tokens
C4_Depth(s, i) ==
  Cardinality({j \in 1..i : s[j] = LBrace}) - Cardinality({j \in 1..i : s[j] = RBrace})

\* s is one JSON object: braces balanced and closed only at the end, nothing
\* but members inside, an inner object exactly after each key
C4_WellFormed(s) ==
  /\ s[1] = LBrace /\ s[Len(s)] = RBrace
  /\ \A i \in 1..(Len(s) - 1) : C4_Depth(s, i) >= 1
  /\ C4_Depth(s, Len(s)) = 0
  /\ \A i \in 1..Len(s) : s[i] # Prose
  /\ \A i \in 2..Len(s) : s[i] = LBrace => s[i - 1].t = "key"
  /\ \A i \in 1..Len(s) : s[i].t = "key" => i < Len(s) /\ s[i + 1] = LBrace

\* the members of the object itself (not of an inner object)
C4_TopLevel(s) == {i \in 2..Len(s) : s[i].t \in {"member", "key"} /\ C4_Depth(s, i - 1) = 1}

C4_ValueAt(s, i) == IF s[i].t = "key" THEN JObj ELSE s[i].value

\* C4: the advisor step never raises and the pipeline goes on to the rewrite
\* stage; on a transport failure, an unreadable body, an error envelope, a
\* reply without text, a text without a brace-delimited span or a span that
\* is not one well-formed JSON object the suggestion is null; otherwise it
\* holds every member of the object, each with its (last) value.
C4_AdvisorAllOrNothing ==
  Events("advisor") # {} =>
     /\ raised = "none"
     /\ pc \in {"rewrite", "done"}
     /\ pc = "done" => Events("transform") # {} /\ result.kind = "response"
     /\ gemini.kind # "text" => geminiOptimizations = NoSuggestion
     /\ gemini.kind = "text" =>
          IF ~C4_HasSpan THEN geminiOptimizations = NoSuggestion
          ELSE IF ~C4_WellFormed(C4_Span) THEN geminiOptimizations = NoSuggestion
          ELSE /\ ~geminiOptimizations.isNull
               /\ DOMAIN geminiOptimizations.fields
                    = {C4_Span[i].field : i \in C4_TopLevel(C4_Span)}
               /\ \A i \in C4_TopLevel(C4_Span) :
                    (\A j \in C4_TopLevel(C4_Span) : C4_Span[j].field = C4_Span[i].field => j <= i)
                      => geminiOptimizations.fields[C4_Span[i].field] = C4_ValueAt(C4_Span, i)

\* a reply whose span starts with a readable member and then breaks off gave
\* no suggestion, and the page was still rewritten
C4_Witness ==
  /\ Events("advisor") # {}
  /\ gemini.kind = "text"
  /\ C4_HasSpan
  /\ ~C4_WellFormed(C4_Span)
  /\ C4_Span[2].t = "member"
  /\ geminiOptimizations = NoSuggestion
  /\ stream = "closed"

----------------------------------------------------------------------------
(* Properties of the head rule *)

EmittedHeads == {j \in 1..Len(out) : out[j].tag = "head"}

IsPreconnect(item) == item.kind = "preconnect"

IsDnsPrefetch(item) == item.kind = "dns-prefetch"

IsBase(item) == item.kind = "base"

Min(a, b) == IF a < b THEN a ELSE b

Max(a, b) == IF a > b THEN a ELSE b

C7_NoSuggestedList ==
  \/ geminiOptimizations.isNull
  \/ "preconnectDomains" \notin DOMAIN geminiOptimizations.fields
  \/ geminiOptimizations.fields["preconnectDomains"].t = "null"

\* C7: with N extracted external domains, every emitted head has dns-prefetch
\* links exactly for entries 6..10 of the extracted sequence, in order,
\* max(0, min(N,10)-5) of them, whether or not the suggestion has a list; and
\* without a suggested list it has preconnect links exactly for entries 1..5,
\* in order, min(N,5) of them.
C7_HintCounts ==
  \A j \in EmittedHeads :
     LET D == pageContext.externalDomains
         N == Len(D)
         pre == SelectSeq(out[j].append, IsPreconnect)
         dns == SelectSeq(out[j].append, IsDnsPrefetch)
     IN  /\ Len(dns) = Max(0, Min(N, 10) - 5)
         /\ \A i \in 1..Len(dns) : dns[i].href = D[5 + i]
         /\ C7_NoSuggestedList =>
              /\ Len(pre) = Min(N, 5)
              /\ \A i \in 1..Len(pre) : pre[i].href = D[i]

\* more than ten extracted domains, no suggested list: five and five
C7_Witness ==
  /\ Len(pageContext.externalDomains) > 10
  /\ C7_NoSuggestedList
  /\ \E j \in EmittedHeads :
       /\ Len(SelectSeq(out[j].append, IsPreconnect)) = 5
       /\ Len(SelectSeq(out[j].append, IsDnsPrefetch)) = 5

\* C8: no emitted head has more than 5 preconnect links, whether they come
\* from the suggestion's list or from the extracted domains.
C8_AtMostFivePreconnects ==
  \A j \in EmittedHeads : Len(SelectSeq(out[j].append, IsPreconnect)) <= 5

----------------------------------------------------------------------------
(* Properties of the element rules.  out[j] is the emitted form of element  *)
(* j of the document the origin served.                                     *)

Specified(j, name) == name \in DOMAIN site.doc[j].attrs

\* the ordinal of element j among the images of the document
ImageOrdinal(j) == Cardinality({i \in 1..j : site.doc[i].tag = "img"})

KeepsAttr(j, name) ==
  IF Specified(j, name)
  THEN name \in DOMAIN out[j].attrs /\ out[j].attrs[name] = site.doc[j].attrs[name]
  ELSE name \notin DOMAIN out[j].attrs

HasValue(j, name, value) == name \in DOMAIN out[j].attrs /\ out[j].attrs[name] = value

\* C9: the first two images keep loading and decoding as the source has
\* them, and get fetchpriority="high" exactly when the source specifies
\* neither width nor height; every later image keeps the loading and decoding
\* the source specifies and gets lazy / async where it specifies none.
C9_ImageRule ==
  \A j \in 1..Len(out) :
     out[j].tag = "img" =>
       IF ImageOrdinal(j) <= 2
       THEN /\ KeepsAttr(j, "loading")
            /\ KeepsAttr(j, "decoding")
            /\ HasValue(j, "fetchpriority", <<"high">>)
                 <=> (~Specified(j, "width") /\ ~Specified(j, "height"))
       ELSE /\ IF Specified(j, "loading") THEN KeepsAttr(j, "loading")
               ELSE HasValue(j, "loading", <<"lazy">>)
            /\ IF Specified(j, "decoding") THEN KeepsAttr(j, "decoding")
               ELSE HasValue(j, "decoding", <<"async">>)

\* the src of element j contains one of the tracker markers
C10_Marked(j) ==
  \E i \in 1..Len(site.doc[j].attrs["src"]) :
     site.doc[j].attrs["src"][i] \in {"analytics", "gtag", "facebook"}

\* C10: a script with a src that contains a tracker marker gains async when
\* the source has neither an async nor a defer attribute, and is emitted with
\* the attributes of the source when it has either of them, whatever its
\* value; a script whose src has no marker is emitted with the attributes of
\* the source.
C10_ScriptRule ==
  \A j \in 1..Len(out) :
     (out[j].tag = "script" /\ Specified(j, "src")) =>
       IF C10_Marked(j) /\ ~Specified(j, "async") /\ ~Specified(j, "defer")
       THEN "async" \in DOMAIN out[j].attrs
       ELSE out[j].attrs = site.doc[j].attrs

----------------------------------------------------------------------------
(* Properties of the description rule *)

C11_IsDescription(el) ==
  el.tag = "meta" /\ "name" \in DOMAIN el.attrs /\ el.attrs["name"] = <<"description">>

\* the suggestion's metaDescription (undefined without a suggestion or the field)
C11_Value ==
  IF geminiOptimizations.isNull \/ "metaDescription" \notin DOMAIN geminiOptimizations.fields
  THEN JUndefined
  ELSE geminiOptimizations.fields["metaDescription"]

C11_NonNull == C11_Value.t \notin {"undefined", "null"}

\* not null and not an empty value: "" and 0 are no description
C11_NonEmpty == C11_NonNull /\ C11_Value # JStr(<<>>) /\ C11_Value # JNum(0)

\* the emitted elements are those of the document, a description meta has its
\* content overwritten (and nothing else changed) when overwrite holds, every
\* meta is emitted as the source has it otherwise, and nothing the engine
\* injected into a head is a description meta
C11_Rule(overwrite) ==
  \A j \in 1..Len(out) :
     /\ out[j].tag = site.doc[j].tag
     /\ C11_IsDescription(out[j]) <=> C11_IsDescription(site.doc[j])
     /\ site.doc[j].tag = "meta" =>
          IF C11_IsDescription(site.doc[j]) /\ overwrite
          THEN out[j].attrs = ("content" :> JText(C11_Value)) @@ site.doc[j].attrs
          ELSE out[j].attrs = site.doc[j].attrs
     /\ \A i \in 1..Len(out[j].append) :
          out[j].append[i].kind \in
            {"preconnect", "dns-prefetch", "jsonld", "preload", "meta-viewport", "meta-compat"}
     /\ \A i \in 1..Len(out[j].prepend) : out[j].prepend[i].kind \in {"base", "comment"}

\* C11 (as stated): a description meta's content is overwritten with the
\* suggestion's metaDescription exactly when the suggestion is present and its
\* metaDescription is not null; otherwise it is emitted untouched; no
\* description meta is created.
C11_OverwriteWhenNonNull == C11_Rule(C11_NonNull)

\* C11 (amended): a description meta's content is overwritten with the
\* suggestion's metaDescription exactly when the suggestion is present and its
\* metaDescription is neither null nor empty ("" or 0); otherwise every meta
\* is emitted untouched; no description meta is created.
C11_OverwriteWhenNonEmpty == C11_Rule(C11_NonEmpty)

\* a description meta with content "old" was emitted with the suggested text,
\* next to a keywords meta left alone
C11_Witness ==
  /\ C11_Value = JStr(<<"better">>)
  /\ stream = "closed"
  /\ \E j \in 1..Len(out) :
       /\ C11_IsDescription(site.doc[j])
       /\ site.doc[j].attrs["content"] = <<"old">>
       /\ out[j].attrs["content"] = <<"better">>
----------------------------------------------------------------------------
(* Properties of origin resolution *)

C12_OriginParams == {i \in 1..Len(request.params) : request.params[i].name = "origin"}

\* the value of the origin query parameter (of the first one), "" without one
C12_Query ==
  IF C12_OriginParams = {} THEN <<>>
  ELSE request.params[CHOOSE i \in C12_OriginParams : \A k \in C12_OriginParams : i <= k].value

\* the value of the highest-priority source that supplies one
C12_Chosen ==
  IF C12_Query # <<>> THEN C12_Query
  ELSE IF request.originHeader # <<>> THEN request.originHeader
  ELSE IF env.ORIGIN_DOMAIN # <<>> THEN env.ORIGIN_DOMAIN
  ELSE <<"http", "s", "://", "example.com">>

\* C12: once resolved, the origin is the value of the origin query parameter
\* when it supplies one, else of the X-Origin-Domain header when it supplies
\* one, else of ORIGIN_DOMAIN when configured, else https://example.com (as
\* given or behind an added https://); a source that supplies no value (absent
\* or empty) never hides a lower one, and the resolved origin is never empty.
C12_OriginPriority ==
  pc # "start" =>
     /\ originDomain # <<>>
     /\ originDomain \in {C12_Chosen, <<"http", "s", "://">> \o C12_Chosen}

\* no origin parameter, a header and a configured origin: the header was taken
C12_Witness ==
  /\ pc = "done"
  /\ C12_Query = <<>>
  /\ request.originHeader = <<"hdr.example">>
  /\ env.ORIGIN_DOMAIN = <<"env.example">>
  /\ originDomain = <<"http", "s", "://", "hdr.example">>
\* the value has a scheme: it contains "://"
C17_HasScheme(v) == \E i \in 1..Len(v) : v[i] = "://"

C17_NotOrigin(p) == p.name # "origin"

\* C17: the upstream URL is the chosen origin value, behind an added https://
\* when it has no scheme and as given when it has one, followed by the inbound
\* path and by the inbound query without its origin parameters.
C17_UpstreamUrl ==
  pc # "start" =>
     originUrl = (IF C17_HasScheme(C12_Chosen) THEN C12_Chosen
                  ELSE <<"http", "s", "://">> \o C12_Chosen)
                 \o request.pathname
                 \o UrlSearch(SelectSeq(request.params, C17_NotOrigin))
----------------------------------------------------------------------------
(* Properties of the sequencing of the stages *)

\* every event of kind b in the log has an event of kind a before it
C13_Precedes(a, b) == \A j \in Events(b) : \E i \in Events(a) : i < j

\* the extraction pass has seen the whole document: every image source of it
\* is recorded
C13_Drained ==
  Len(pageContext.images)
    = Cardinality({j \in 1..Len(site.doc) :
                     /\ site.doc[j].tag = "img"
                     /\ "src" \in DOMAIN site.doc[j].attrs
                     /\ site.doc[j].attrs["src"] # <<>>})

\* C13: the extraction pass starts only after the origin fetch has delivered
\* its response; the advisor request is issued only after the extraction pass
\* has drained the document; the rewrite pass is created only after
\* extraction and, with an advisor configured, after the advisor request has
\* been issued and resolved; no rewrite callback runs before the pass is
\* created; each stage is started at most once.
C13_StagesInSequence ==
  /\ C13_Precedes("fetch", "extract")
  /\ Events("extract") # {} =>
       originalResponse.headers = site.headers /\ originalResponse.body = site.doc
  /\ C13_Precedes("extract", "advisor")
  /\ Events("advisor") # {} => C13_Drained /\ pc # "advise"
  /\ C13_Precedes("extract", "transform")
  /\ Events("transform") # {} =>
       /\ C13_Drained
       /\ env.GEMINI_API_KEY # <<>> => C13_Precedes("advisor", "transform") /\ Events("advisor") # {}
  /\ (stream # "none" \/ out # <<>>) => Events("transform") # {}
  /\ \A k \in {"extract", "advisor", "transform"} : Cardinality(Events(k)) <= 1

\* fetch, extraction, advisor and rewrite pass in this order, with a suggestion
C13_Witness ==
  /\ Len(log) = 4
  /\ log[1].ev = "fetch" /\ log[2].ev = "extract"
  /\ log[3].ev = "advisor" /\ log[4].ev = "transform"
  /\ ~geminiOptimizations.isNull
  /\ stream = "closed"

\* C14: one inbound request makes at most one advisor request; a request that
\* has been handled without an exception in the try block made exactly one
\* origin fetch, one handled with such an exception exactly two, the second
\* being the fallback; a failed advisor call raises nothing, so that no
\* fallback fetch and no second advisor request follows it.
C14_NoRetry ==
  /\ Cardinality(Events("advisor")) <= 1
  /\ Cardinality(Events("fetch")) <= 2
  /\ (pc = "done" /\ raised = "none") =>
       Cardinality(Events("fetch")) = 1 /\ FallbackFetches = {}
  /\ (pc = "done" /\ raised # "none") =>
       Cardinality(Events("fetch")) = 2 /\ Cardinality(FallbackFetches) = 1
  /\ (Events("advisor") # {} /\ gemini.kind # "text") =>
       /\ raised = "none"
       /\ FallbackFetches = {}
       /\ Cardinality(Events("fetch")) = 1

\* a rejected advisor request, after which the page was rewritten and
\* delivered with one origin fetch and one advisor request in all
C14_Witness ==
  /\ gemini.kind = "reject"
  /\ Cardinality(Events("advisor")) = 1
  /\ Cardinality(Events("fetch")) = 1
  /\ stream = "closed"

\* the context of a drained extraction pass
C16_Populated ==
  pc \in {"advise", "rewrite"} \/ (pc = "done" /\ Events("transform") # {})

\* C16: when the advisor step is reached the context holds what the
\* extraction pass found in the whole document, and from then on no step (the
\* advisor call, the creation of the rewrite pass, a rewrite callback, the end
\* of the stream) changes any of its fields.
C16_ContextFrozen ==
  /\ [](C16_Populated => C13_Drained)
  /\ [][C16_Populated => pageContext' = pageContext]_vars

\* the rewrite pass ran over a page with a suggestion and the context still
\* holds the extracted description, image and domain
C16_Witness ==
  /\ stream = "closed"
  /\ ~geminiOptimizations.isNull
  /\ pageContext.description = <<"old">>
  /\ Len(pageContext.images) = 1
  /\ Len(pageContext.externalDomains) = 1
----------------------------------------------------------------------------
(* Properties of the extraction pass *)

\* the resource URL of element j: the href of a link, the src of a script
C18_Resource(j) ==
  LET el == site.doc[j]
  IN  IF el.tag = "link" /\ "href" \in DOMAIN el.attrs THEN el.attrs["href"]
      ELSE IF el.tag = "script" /\ "src" \in DOMAIN el.attrs THEN el.attrs["src"]
      ELSE <<>>

\* an absolute http(s) URL with a host
C18_Absolute(u) ==
  \/ Len(u) >= 3 /\ u[1] = "http" /\ u[2] = "://"
  \/ Len(u) >= 4 /\ u[1] = "http" /\ u[2] = "s" /\ u[3] = "://"

\* scheme and host of an absolute URL, the host in lower case
C18_OriginOf(u) ==
  LET h == IF u[2] = "://" THEN 3 ELSE 4
      host == IF u[h] = "CDN1.example" THEN "cdn1.example" ELSE u[h]
  IN  [i \in 1..h |-> IF i = h THEN host ELSE u[i]]

C18_Referencing(o) ==
  {j \in 1..Len(site.doc) : C18_Absolute(C18_Resource(j)) /\ C18_OriginOf(C18_Resource(j)) = o}

C18_FirstSeen(o) == CHOOSE j \in C18_Referencing(o) : \A k \in C18_Referencing(o) : j <= k

C18_Images ==
  {j \in 1..Len(site.doc) :
     /\ site.doc[j].tag = "img"
     /\ "src" \in DOMAIN site.doc[j].attrs
     /\ site.doc[j].attrs["src"] # <<>>}

----------------------------------------------------------------------------
(* Properties of the preload hints *)

IsPreload(item) == item.kind = "preload"

\* the resources the suggestion lists (none without a suggestion or a list)
C19_Listed ==
  IF geminiOptimizations.isNull
       \/ "criticalResources" \notin DOMAIN geminiOptimizations.fields
       \/ geminiOptimizations.fields["criticalResources"].t # "arr"
  THEN <<>>
  ELSE [i \in 1..Len(geminiOptimizations.fields["criticalResources"].v) |->
          geminiOptimizations.fields["criticalResources"].v[i].v]

C19_Dots(r) == {i \in 1..Len(r) : r[i] = "."}

\* the file extension of a resource: what follows its last dot, "" without a
\* dot or with nothing after it
C19_Extension(r) ==
  LET d == CHOOSE i \in C19_Dots(r) : \A k \in C19_Dots(r) : k <= i
  IN  IF C19_Dots(r) = {} THEN ""
      ELSE IF d = Len(r) THEN ""
      ELSE r[d + 1]

C19_As(r) ==
  IF C19_Extension(r) \in {"css", "CSS"} THEN "style"
  ELSE IF C19_Extension(r) \in {"js", "JS"} THEN "script"
  ELSE "fetch"

\* C19: every emitted head has one preload link per resource the suggestion
\* lists, in list order, its href the resource and its as-value style for the
\* extension css, script for js and fetch for any other resource, one without
\* extension included; without a suggestion or a list it has none.
C19_PreloadLinks ==
  \A j \in EmittedHeads :
     LET pre == SelectSeq(out[j].append, IsPreload)
     IN  /\ Len(pre) = Len(C19_Listed)
         /\ \A i \in 1..Len(pre) :
              /\ pre[i].href = C19_Listed[i]
              /\ pre[i].as = C19_As(C19_Listed[i])
----------------------------------------------------------------------------
(* Properties of concurrent rewrite passes *)

\* the images among the first n elements of a document
C15_ImagesIn(doc, n) == Cardinality({i \in 1..n : doc[i].tag = "img"})

\* the pass over doc has emitted emitted and its counter is counter: the
\* counter is the number of images the pass has seen, and an image without
\* loading, width and height is lazy exactly from the third image of doc on
\* and of high priority exactly as one of its first two
C15_PassAlone(doc, emitted, counter) ==
  /\ counter = C15_ImagesIn(doc, Len(emitted))
  /\ \A j \in 1..Len(emitted) :
       emitted[j].tag = "img" =>
         /\ ("loading" \in DOMAIN emitted[j].attrs) <=> C15_ImagesIn(doc, j) > 2
         /\ ("decoding" \in DOMAIN emitted[j].attrs) <=> C15_ImagesIn(doc, j) > 2
         /\ ("fetchpriority" \in DOMAIN emitted[j].attrs) <=> C15_ImagesIn(doc, j) <= 2

\* C15: with the callbacks of several rewrite passes interleaved in any
\* order, each pass counts only the images of its own document: its counter
\* is zero when it is created and equals the number of images it has itself
\* seen, and each image's lazy / high-priority treatment is that of its
\* ordinal in its own document.
C15_CounterPerPass ==
  /\ stream # "none" => C15_PassAlone(site.doc, out, imageCount)
  /\ stream = "none" => imageCount = 0
  /\ \A p \in DOMAIN peers :
       C15_PassAlone(peers[p].body, peers[p].out, peers[p].imageCount)

\* two passes over documents of three images or more, both in the middle of
\* their document, the other pass ahead
C15_Witness ==
  /\ stream = "open" /\ imageCount = 1
  /\ \E p \in DOMAIN peers :
       /\ peers[p].stream = "open"
       /\ peers[p].imageCount = 3
       /\ Len(peers[p].body) > 4
  /\ Len(site.doc) > 3
----------------------------------------------------------------------------
(* Properties of the bulk audit script *)

\* the distinct domains of the input file
C20_InputDomains ==
  { IF leads.rows[i][1] = "http" THEN leads.rows[i] ELSE <<"http", "s", "://">> \o leads.rows[i] :
      i \in {k \in 1..Len(leads.rows) : leads.rows[k] # <<>>} }

C20_Entries(results, d) == {k \in 1..Len(results) : results[k].domain = d}

\* C20: a process of the script never audits a domain that the checkpoint it
\* resumed from lists as completed, and audits no domain twice; a progress
\* file the script has saved lists each completed domain once and holds
\* exactly one result for each; when main() has finished, the results (and
\* the output file) hold exactly one entry for each distinct input domain
\* and none else, and the progress file is gone.
C20_AuditResume ==
  /\ \A k \in 1..Len(main.audited) :
       /\ \A r \in 1..Len(main.resumed) : main.resumed[r] # main.audited[k]
       /\ \A l \in 1..Len(main.audited) : l # k => main.audited[l] # main.audited[k]
  /\ progressFile.kind = "json" =>
       /\ Len(progressFile.results) = Len(progressFile.completed)
       /\ \A c \in 1..Len(progressFile.completed) :
            /\ Cardinality(C20_Entries(progressFile.results, progressFile.completed[c])) = 1
            /\ \A e \in 1..Len(progressFile.completed) :
                 e # c => progressFile.completed[e] # progressFile.completed[c]
  /\ main.pc = "done" =>
       /\ \A d \in C20_InputDomains : Cardinality(C20_Entries(main.results, d)) = 1
       /\ \A k \in 1..Len(main.results) : main.results[k].domain \in C20_InputDomains
       /\ outputFile.exists /\ outputFile.rows = main.results
       /\ progressFile.kind = "none"

\* a run that resumed from a checkpoint of ten domains, over an input with a
\* repeated domain, has audited the rest and finished
C20_Witness ==
  /\ main.pc = "done"
  /\ Len(main.resumed) = SAVE_EVERY
  /\ Len(main.audited) > 0
  /\ Len(main.domains) > Cardinality(C20_InputDomains)
  /\ Len(main.results) = Cardinality(C20_InputDomains)
====
